---------------------------- MODULE Spec2Model ----------------------------
(***************************************************************************)
(* A model of scripts/diff_provider_versions.py: the API-version parity    *)
(* differ.  Version tokens and resource-type names are TLA+ strings; the   *)
(* Python library calls the script relies on (str ordering, str.split,     *)
(* datetime.strptime, datetime subtraction, set iteration) are modelled by *)
(* what they compute.                                                      *)
(***************************************************************************)
EXTENDS Integers, Sequences, FiniteSets, TLC

VARIABLES
    pub,        \* the public document read by json.load (line 44)
    gov,        \* the gov document read by json.load (line 47)
    pc,         \* position of main(): "start", "loop", "done", "failed", or "idle"
    pub_map,    \* to_map(pub) (line 49)
    gov_map,    \* to_map(gov) (line 50)
    all_types,  \* sorted union of the keys (line 52)
    results,    \* the results dictionary under construction (lines 54-94)
    output,     \* the file at output_path: None or Some(document)
    now,        \* the clock datetime.utcnow() reads (line 58)
    run,        \* which invocation of the script this is
    firstOutput,\* the file the first invocation wrote, kept for comparison
    arg,        \* argument of a function checked on its own
    ret,        \* its result
    traceback,  \* the line of main() an uncaught exception passed through, or 0
    rows        \* the rows report_parity_md.py renders

vars == <<pub, gov, pc, pub_map, gov_map, all_types, results, output, now,
          run, firstOutput, arg, ret, traceback, rows>>

-----------------------------------------------------------------------------
(* Bounds of the model.                                                    *)

MaxEntries == 2     \* entries of a document given to to_map on its own
MaxRunEntries == 2  \* entries of the two documents of a run, taken together
MaxVers == 2        \* length of an apiVersions list
MaxClock == 1       \* how far the clock advances
MaxSetSize == 3     \* size of a version set given to latest_version on its own

-----------------------------------------------------------------------------
(* Python values.                                                          *)

\* None, and a value that is present.
None == <<>>
Some(x) == <<x>>
Val(o) == o[1]

Min(S) == CHOOSE x \in S : \A y \in S : x <= y
Max(S) == CHOOSE x \in S : \A y \in S : x >= y

Char(s, i) == SubSeq(s, i, i)

\* The characters the model's strings are made of, in code-point order.
Alphabet == " -0123456789BTabegiknoprstuvw"
Digits == "0123456789"

Ord(c) == CHOOSE i \in 1..Len(Alphabet) : Char(Alphabet, i) = c

IsDigit(c) == \E i \in 1..Len(Digits) : Char(Digits, i) = c
DigitVal(c) == (CHOOSE i \in 1..Len(Digits) : Char(Digits, i) = c) - 1

\* Python's str "<": by code point at the first difference, a proper prefix first.
StrLess(a, b) ==
    LET n == IF Len(a) < Len(b) THEN Len(a) ELSE Len(b)
        diff == {i \in 1..n : Char(a, i) # Char(b, i)}
    IN  IF diff = {} THEN Len(a) < Len(b)
        ELSE Ord(Char(a, Min(diff))) < Ord(Char(b, Min(diff)))

\* Version tokens of a run: two that share a date, a later one, a malformed
\* one and the empty string.
RunTokens == {"2024-05-01", "2024-05-01-preview", "2024-07-01", "bogus-token", ""}

\* Version tokens given to latest_version on its own: also the date of
\* datetime.min, a date without zero padding and a day that is not in the
\* calendar.
Tokens == RunTokens \cup {"0001-01-01", "2024-5-1", "2024-02-30"}

\* Version tokens given to to_map on its own, which never looks into them.
IndexTokens == {"2024-05-01", "2024-07-01"}

\* Resource-type names.
Names == {"", "B", "a"}

\* StrLess over the strings of the model, computed once.
str_lt == [a \in Tokens \cup Names, b \in Tokens \cup Names |-> StrLess(a, b)]

\* sorted(S) for a collection of distinct strings: the ascending sequence.
RECURSIVE sorted(_)
sorted(S) ==
    IF S = {} THEN <<>>
    ELSE LET m == CHOOSE x \in S : \A y \in S : x = y \/ str_lt[x, y]
         IN  <<m>> \o sorted(S \ {m})

\* The orders in which iterating a set can yield its elements: the order
\* depends on the strings' hashes, which differ from process to process.
IterationOrders(S) ==
    {p \in [1..Cardinality(S) -> S] : \A i, j \in 1..Cardinality(S) : p[i] = p[j] => i = j}

\* s.split(sep)[0]: the part of s before the first occurrence of sep.
split_head(s, sep) ==
    LET hits == {i \in 1..(Len(s) - Len(sep) + 1) : SubSeq(s, i, i + Len(sep) - 1) = sep}
    IN  IF hits = {} THEN s ELSE SubSeq(s, 1, Min(hits) - 1)

-----------------------------------------------------------------------------
(* Dates.                                                                  *)

IsLeap(y) == y % 4 = 0 /\ (y % 100 # 0 \/ y % 400 = 0)

DaysInMonth(y, m) ==
    IF m = 2 THEN (IF IsLeap(y) THEN 29 ELSE 28)
    ELSE IF m \in {4, 6, 9, 11} THEN 30 ELSE 31

RECURSIVE DaysBeforeMonth(_, _)
DaysBeforeMonth(y, m) ==
    IF m = 1 THEN 0 ELSE DaysBeforeMonth(y, m - 1) + DaysInMonth(y, m - 1)

\* A datetime at midnight is modelled by its proleptic Gregorian ordinal
\* (0001-01-01 is day 1), so that subtraction gives timedelta.days.
toordinal(y, m, d) ==
    LET p == y - 1
    IN  365 * p + (p \div 4) - (p \div 100) + (p \div 400) + DaysBeforeMonth(y, m) + d

\* datetime.min is 0001-01-01 00:00.
datetime_min == toordinal(1, 1, 1)

\* The outcome of a call that may raise: a value, or an exception.
Returned(v) == [raised |-> FALSE, value |-> v]
Raised == [raised |-> TRUE, value |-> 0]

\* datetime.strptime(s, "%Y-%m-%d").  The format compiles to the regular
\* expression \d\d\d\d-(1[0-2]|0[1-9]|[1-9])-(3[01]|[12]\d|0[1-9]|[1-9]| [1-9]),
\* the whole string must be consumed, and the fields must name a calendar
\* date of year 1 or later; otherwise ValueError.
MonthForm(s) ==
    \/ Len(s) = 2 /\ Char(s, 1) = "1" /\ Char(s, 2) \in {"0", "1", "2"}
    \/ Len(s) = 2 /\ Char(s, 1) = "0" /\ IsDigit(Char(s, 2)) /\ Char(s, 2) # "0"
    \/ Len(s) = 1 /\ IsDigit(Char(s, 1)) /\ Char(s, 1) # "0"

DayForm(s) ==
    \/ Len(s) = 2 /\ Char(s, 1) = "3" /\ Char(s, 2) \in {"0", "1"}
    \/ Len(s) = 2 /\ Char(s, 1) \in {"1", "2"} /\ IsDigit(Char(s, 2))
    \/ Len(s) = 2 /\ Char(s, 1) = "0" /\ IsDigit(Char(s, 2)) /\ Char(s, 2) # "0"
    \/ Len(s) = 1 /\ IsDigit(Char(s, 1)) /\ Char(s, 1) # "0"
    \/ Len(s) = 2 /\ Char(s, 1) = " " /\ IsDigit(Char(s, 2)) /\ Char(s, 2) # "0"

RECURSIVE Number(_)
Number(s) ==
    IF Len(s) = 0 THEN 0
    ELSE IF Char(s, Len(s)) = " " THEN 0
    ELSE 10 * Number(SubSeq(s, 1, Len(s) - 1)) + DigitVal(Char(s, Len(s)))

strptime(s) ==
    LET yearOk == /\ Len(s) >= 5
                  /\ \A i \in 1..4 : IsDigit(Char(s, i))
                  /\ Char(s, 5) = "-"
        \* the month is the one or two characters before the second "-"
        mlen == IF Len(s) >= 8 /\ Char(s, 8) = "-" /\ MonthForm(SubSeq(s, 6, 7)) THEN 2
                ELSE IF Len(s) >= 7 /\ Char(s, 7) = "-" /\ MonthForm(SubSeq(s, 6, 6)) THEN 1
                ELSE 0
        day == SubSeq(s, 6 + mlen + 1, Len(s))
    IN  IF ~yearOk \/ mlen = 0 \/ ~DayForm(day) THEN Raised
        ELSE LET y == Number(SubSeq(s, 1, 4))
                 m == Number(SubSeq(s, 6, 5 + mlen))
                 d == Number(day)
             IN  IF y < 1 \/ d > DaysInMonth(y, m) THEN Raised
                 ELSE Returned(toordinal(y, m, d))

\* parse_date, lines 6-9: the date of the part before the first "-preview".
parse_date(api_version) == strptime(split_head(api_version, "-preview"))

\* parse_date over the tokens of the model, computed once.
date_of == [v \in Tokens |-> parse_date(v)]


-----------------------------------------------------------------------------
(* The functions of diff_provider_versions.py.                             *)

\* Truthiness of an optional string (None and "" are falsy).
truthy(o) == o # None /\ Val(o) # ""

Range(f) == {f[i] : i \in DOMAIN f}

\* A slip in line 18: the versions of an entry are added to those the name
\* already has.
RECURSIVE to_map_loop_union(_, _)
to_map_loop_union(items, mapping) ==
    IF items = <<>> THEN Returned(mapping)
    ELSE LET item == Head(items)
             rtype == item.resourceType
         IN  IF item.apiVersions.kind = "null" THEN Raised
             ELSE LET versions == IF item.apiVersions.kind = "absent" THEN {}
                                  ELSE Range(item.apiVersions.list)
                  IN  to_map_loop_union(Tail(items),
                          IF truthy(rtype)
                          THEN [k \in DOMAIN mapping \cup {Val(rtype)} |->
                                   IF k = Val(rtype)
                                   THEN versions \cup (IF k \in DOMAIN mapping
                                                       THEN mapping[k] ELSE {})
                                   ELSE mapping[k]]
                          ELSE mapping)

\* to_map, lines 11-19.  An item is [resourceType, apiVersions]: resourceType
\* is what item.get("resourceType") returns (None when the key is absent or
\* null), apiVersions is the key's state: absent, null, or a list of tokens.
\* set(None) raises TypeError, and it is evaluated before the name is tested.
RECURSIVE to_map_loop(_, _)
to_map_loop(items, mapping) ==
    IF items = <<>> THEN Returned(mapping)
    ELSE LET item == Head(items)
             rtype == item.resourceType
         IN  IF item.apiVersions.kind = "null" THEN Raised
             ELSE LET versions == IF item.apiVersions.kind = "absent" THEN {}
                                  ELSE Range(item.apiVersions.list)
                  IN  to_map_loop(Tail(items),
                                  IF truthy(rtype)
                                  THEN [k \in DOMAIN mapping \cup {Val(rtype)} |->
                                           IF k = Val(rtype) THEN versions ELSE mapping[k]]
                                  ELSE mapping)

\* A slip in line 14: a root that is no object is read as an empty document.
to_map_lenient(doc) ==
    IF doc.root # "object" THEN Returned(<<>>) ELSE to_map_loop(doc.resourceTypes, <<>>)

\* A document whose root is no JSON object has no get(): line 14 raises
\* AttributeError.
to_map(doc) ==
    IF doc.root # "object" THEN Raised ELSE to_map_loop(doc.resourceTypes, <<>>)

\* A slip in line 29: datetime.max for a token that does not parse.
sort_key_max(v) ==
    LET r == date_of[v]
    IN  IF r.raised THEN Returned(toordinal(9999, 12, 31)) ELSE r

\* A slip in lines 26-29: the exception of parse_date is not caught.
sort_key_uncaught(v) == date_of[v]

\* sort_key, lines 25-29: the parsed date, datetime.min when parsing raises.
sort_key(v) ==
    LET r == date_of[v]
    IN  IF r.raised THEN Returned(datetime_min) ELSE r

\* sorted(list, key=sort_key) is stable: elements with equal keys keep the
\* order of the list.
RECURSIVE sorted_by_key(_)
sorted_by_key(list) ==
    IF list = <<>> THEN <<>>
    ELSE LET x == list[Len(list)]
             rest == sorted_by_key(SubSeq(list, 1, Len(list) - 1))
             k == Cardinality({i \in 1..Len(rest) :
                                  sort_key(rest[i]).value <= sort_key(x).value})
         IN  SubSeq(rest, 1, k) \o <<x>> \o SubSeq(rest, k + 1, Len(rest))

\* latest_version, lines 21-31.  order is the order in which list(versions_set)
\* yields the set's elements.  An exception of the key function would leave
\* sorted() and latest_version.
latest_version(versions_set, order) ==
    IF versions_set = {} THEN Returned(None)
    ELSE IF \E v \in versions_set : sort_key(v).raised THEN Raised
    ELSE LET s == sorted_by_key(order) IN Returned(Some(s[Len(s)]))

\* A slip in lines 66-67: the difference taken the wrong way round.
missing_in_swapped(a, b) == sorted(b \ a)

\* Lines 66-67: sorted(list(a - b)).
missing_in(a, b) == sorted(a \ b)

\* A slip in lines 72-77: a lag of 0 where there is nothing to subtract.
lag_days_zero(latest_pub, latest_gov) ==
    IF truthy(latest_pub) /\ truthy(latest_gov)
    THEN LET p == date_of[Val(latest_pub)]
             g == date_of[Val(latest_gov)]
         IN  IF p.raised \/ g.raised THEN None ELSE Some(p.value - g.value)
    ELSE Some(0)

\* A slip in line 75: the subtraction the wrong way round.
lag_days_reversed(latest_pub, latest_gov) ==
    IF truthy(latest_pub) /\ truthy(latest_gov)
    THEN LET p == date_of[Val(latest_pub)]
             g == date_of[Val(latest_gov)]
         IN  IF p.raised \/ g.raised THEN None ELSE Some(g.value - p.value)
    ELSE None

\* A slip in line 75: the distance between the two dates, without its sign.
lag_days_abs(latest_pub, latest_gov) ==
    IF truthy(latest_pub) /\ truthy(latest_gov)
    THEN LET p == date_of[Val(latest_pub)]
             g == date_of[Val(latest_gov)]
         IN  IF p.raised \/ g.raised THEN None
             ELSE Some(IF p.value >= g.value THEN p.value - g.value ELSE g.value - p.value)
    ELSE None

\* Lines 72-77.
lag_days(latest_pub, latest_gov) ==
    IF truthy(latest_pub) /\ truthy(latest_gov)
    THEN LET p == date_of[Val(latest_pub)]
             g == date_of[Val(latest_gov)]
         IN  IF p.raised \/ g.raised THEN None ELSE Some(p.value - g.value)
    ELSE None

\* A slip in lines 79-84: the two tests in the other order.
status_of_gov_first(missing_in_gov, missing_in_public) ==
    IF missing_in_public # <<>> THEN "GovAhead"
    ELSE IF missing_in_gov # <<>> THEN "PublicAhead"
    ELSE "Aligned"

\* Lines 79-84.
status_of(missing_in_gov, missing_in_public) ==
    IF missing_in_gov # <<>> THEN "PublicAhead"
    ELSE IF missing_in_public # <<>> THEN "GovAhead"
    ELSE "Aligned"

\* The elements of a list in the order set(list) inserts them, line 16.
RECURSIVE dedup(_)
dedup(list) ==
    IF list = <<>> THEN <<>>
    ELSE LET h == dedup(SubSeq(list, 1, Len(list) - 1))
         IN  IF list[Len(list)] \in Range(h) THEN h ELSE Append(h, list[Len(list)])

\* The insertion sequence of the set that to_map keeps for rtype: that of the
\* last entry of the document that carries the name, lines 15-18.
inserted(doc, rtype) ==
    LET idx == {i \in DOMAIN doc.resourceTypes :
                   doc.resourceTypes[i].resourceType = Some(rtype)}
    IN  IF idx = {} THEN <<>>
        ELSE dedup(doc.resourceTypes[CHOOSE i \in idx : \A j \in idx : j <= i].apiVersions.list)

\* map.get(rtype, set()), lines 63-64.
get_versions(map, rtype) == IF rtype \in DOMAIN map THEN map[rtype] ELSE {}

\* The body of the loop, lines 63-94, for one resource type.
diff_record(rtype, pub_versions, gov_versions, pub_order, gov_order) ==
    LET missing_in_gov == missing_in(pub_versions, gov_versions)
        missing_in_public == missing_in(gov_versions, pub_versions)
        latest_pub == latest_version(pub_versions, pub_order)
        latest_gov == latest_version(gov_versions, gov_order)
    IN  IF latest_pub.raised \/ latest_gov.raised THEN Raised
        ELSE Returned([resourceType |-> rtype,
                       latestPublic |-> latest_pub.value,
                       latestGov |-> latest_gov.value,
                       lagDaysPublicAhead |-> lag_days(latest_pub.value, latest_gov.value),
                       missingInGov |-> missing_in_gov,
                       missingInPublic |-> missing_in_public,
                       status |-> status_of(missing_in_gov, missing_in_public)])

\* A slip in line 52: the keys of the gov index are left out.
sorted_types_public_only(pm, gm) == sorted(DOMAIN pm)

\* Line 52.
sorted_types(pm, gm) == sorted(DOMAIN pm \cup DOMAIN gm)

\* pub.get("namespace") or gov.get("namespace"), line 55.
first_truthy(a, b) == IF truthy(a) THEN a ELSE b

-----------------------------------------------------------------------------
(* The written document, and report_parity_md.py reading it.               *)

\* JSON values, each with its type.
JNull == [type |-> "null", v |-> <<>>]
JStr(s) == [type |-> "str", v |-> s]
JInt(n) == [type |-> "int", v |-> n]
JList(l) == [type |-> "list", v |-> l]
JObj(f) == [type |-> "object", v |-> f]
JOptStr(o) == IF o = None THEN JNull ELSE JStr(Val(o))

\* datetime.utcnow().isoformat() + "Z" for the clock values of the model.
isoformat(t) == "2024-01-01T00:00:0" \o Char(Digits, t + 1) \o "Z"

\* One record as json.dump writes it, lines 86-94.
json_record(r) ==
    JObj([resourceType |-> JStr(r.resourceType),
          latestPublic |-> JOptStr(r.latestPublic),
          latestGov |-> JOptStr(r.latestGov),
          lagDaysPublicAhead |-> IF r.lagDaysPublicAhead = None THEN JNull
                                 ELSE JInt(Val(r.lagDaysPublicAhead)),
          missingInGov |-> JList([i \in DOMAIN r.missingInGov |-> JStr(r.missingInGov[i])]),
          missingInPublic |-> JList([i \in DOMAIN r.missingInPublic
                                       |-> JStr(r.missingInPublic[i])]),
          status |-> JStr(r.status)])

\* The document of lines 54-60 as json.dump writes it, lines 96-97.
json_dump(res) ==
    [namespace |-> JOptStr(res.namespace),
     publicCloud |-> JOptStr(res.publicCloud),
     govCloud |-> JOptStr(res.govCloud),
     generatedUtc |-> JStr(isoformat(res.generatedUtc)),
     resourceTypeDiffs |-> JList([i \in DOMAIN res.resourceTypeDiffs
                                    |-> json_record(res.resourceTypeDiffs[i])])]

\* Python's truth value of a JSON value, and a or b.
j_truthy(j) ==
    CASE j.type = "null" -> FALSE
      [] j.type = "str" -> j.v # ""
      [] j.type = "int" -> j.v # 0
      [] j.type = "list" -> j.v # <<>>
      [] j.type = "object" -> DOMAIN j.v # {}
j_or(a, b) == IF j_truthy(a) THEN a ELSE b
s_or(a, b) == IF a # "" THEN a ELSE b

\* dict.get(k): None when the key is absent.
j_get(d, k) == IF k \in DOMAIN d THEN d[k] ELSE JNull

\* str.strip(), for the one whitespace character of the alphabet.
RECURSIVE strip(_)
strip(s) ==
    IF s = "" THEN s
    ELSE IF Char(s, 1) = " " THEN strip(SubSeq(s, 2, Len(s)))
    ELSE IF Char(s, Len(s)) = " " THEN strip(SubSeq(s, 1, Len(s) - 1))
    ELSE s

\* The dash the report prints for a missing latest (U+2014 in the source).
EM_DASH == "--"

\* _safe_str: the values it is given are strings or None.
_safe_str(v) ==
    CASE v.type = "null" -> ""
      [] v.type = "str" -> strip(v.v)

\* _safe_int(v, default): the values it is given are integers or None.
_safe_int(v, default) ==
    CASE v.type = "null" -> default
      [] v.type = "int" -> v.v

\* _safe_list: a list as it is, nothing for None.
_safe_list(v) == IF v.type = "list" THEN v.v ELSE <<>>

\* The keys _get_resource_items looks for, in its order.
ItemKeys == <<"resourceTypes", "resources", "types", "items">>

\* The loop over ItemKeys on one mapping: the dict items of the first key
\* that holds a list; found is FALSE when no key does.
find_items(d) ==
    LET hits == {i \in DOMAIN ItemKeys :
                    ItemKeys[i] \in DOMAIN d /\ d[ItemKeys[i]].type = "list"}
    IN  IF hits = {} THEN [found |-> FALSE, items |-> <<>>]
        ELSE LET k == ItemKeys[CHOOSE i \in hits : \A j \in hits : i <= j]
             IN  [found |-> TRUE,
                  items |-> SelectSeq(d[k].v, LAMBDA x : x.type = "object")]

\* _get_resource_items: the top level first, then under "data".
_get_resource_items(doc) ==
    LET top == find_items(doc)
        data == j_get(doc, "data")
    IN  IF top.found THEN top.items
        ELSE IF data.type = "object" THEN find_items(data.v).items
        ELSE <<>>

\* _extract_row.
_extract_row(item) ==
    LET resource_type ==
            s_or(_safe_str(j_get(item, "name")),
                 s_or(_safe_str(j_get(item, "resourceType")),
                      s_or(_safe_str(j_get(item, "type")),
                           _safe_str(j_get(item, "resource_type")))))
        latest_public ==
            _safe_str(j_or(j_get(item, "latestPublic"),
                           j_or(j_get(item, "publicLatest"), j_get(item, "latest_public"))))
        latest_gov ==
            _safe_str(j_or(j_get(item, "latestGov"),
                           j_or(j_get(item, "govLatest"), j_get(item, "latest_gov"))))
        missing_in_gov ==
            _safe_list(j_or(j_get(item, "missingInGov"), j_get(item, "missing_in_gov")))
        missing_in_public ==
            _safe_list(j_or(j_get(item, "missingInPublic"), j_get(item, "missing_in_public")))
        status == s_or(strip(_safe_str(j_get(item, "status"))),
                       strip(_safe_str(j_get(item, "parityStatus"))))
        lag == IF j_get(item, "lagDaysPublicAhead").type = "null"
               THEN j_get(item, "lagDays") ELSE j_get(item, "lagDaysPublicAhead")
    IN  [resourceType |-> resource_type,
         status |-> s_or(status, "Unknown"),
         lagDaysPublicAhead |-> _safe_int(lag, 0),
         latestPublic |-> s_or(latest_public, EM_DASH),
         latestGov |-> s_or(latest_gov, EM_DASH),
         missingInGov |-> [i \in DOMAIN missing_in_gov |-> missing_in_gov[i].v],
         missingInPublic |-> [i \in DOMAIN missing_in_public |-> missing_in_public[i].v]]

\* main() of the report, lines 322-326: the rows it renders and counts.
report_rows(doc) ==
    LET items == _get_resource_items(doc)
        all == [i \in DOMAIN items |-> _extract_row(items[i].v)]
    IN  SelectSeq(all, LAMBDA r : strip(r.resourceType) # "")

-----------------------------------------------------------------------------
(* Inputs.                                                                 *)

\* What item.get("resourceType") can return: None when the key is absent or
\* null, else the name.  The items of a run all carry the key.
NameInputs == {None} \cup {Some(n) : n \in Names}
RunNameInputs == {Some(n) : n \in Names}

Lists(S, n) == UNION {[1..k -> S] : k \in 0..n}

VersionInputs(T) ==
    {[kind |-> "absent", list |-> <<>>], [kind |-> "null", list |-> <<>>]}
    \cup {[kind |-> "list", list |-> l] : l \in Lists(T, MaxVers)}

Items(N, T) == {[resourceType |-> r, apiVersions |-> a] : r \in N, a \in VersionInputs(T)}

RunItems == Items(RunNameInputs, RunTokens)

Doc(cloud, items) ==
    [root |-> "object", namespace |-> Some("Microsoft.Compute"), cloud |-> Some(cloud),
     resourceTypes |-> items]

\* A document whose root is a JSON array.
NotObject == [root |-> "array", namespace |-> None, cloud |-> None, resourceTypes |-> <<>>]

NoDoc == Doc("", <<>>)
NoResults == [namespace |-> None, publicCloud |-> None, govCloud |-> None,
              generatedUtc |-> 0, resourceTypeDiffs |-> <<>>]

-----------------------------------------------------------------------------
(* A run of main(), and a second run on the same two documents.            *)

Init ==
    /\ \/ \E n \in 0..MaxRunEntries :
             \E m \in 0..(MaxRunEntries - n) :
                \E p \in [1..n -> RunItems], g \in [1..m -> RunItems] :
                   /\ pub = Doc("AzureCloud", p)
                   /\ gov = Doc("AzureUSGovernment", g)
       \* a root that is no object, counted as one entry
       \/ \E l \in Lists(RunItems, MaxRunEntries - 1) :
             \/ pub = NotObject /\ gov = Doc("AzureUSGovernment", l)
             \/ pub = Doc("AzureCloud", l) /\ gov = NotObject
       \/ pub = NotObject /\ gov = NotObject
    /\ pc = "start"
    /\ pub_map = <<>>
    /\ gov_map = <<>>
    /\ all_types = <<>>
    /\ results = NoResults
    /\ output = None
    /\ now = 0
    /\ run = 1
    /\ firstOutput = None
    /\ arg = None
    /\ ret = Returned(None)
    /\ traceback = 0
    /\ rows = <<>>

\* Time passes before the script reads the clock.
Tick ==
    /\ pc = "start"
    /\ now < MaxClock
    /\ now' = now + 1
    /\ UNCHANGED <<pub, gov, pc, pub_map, gov_map, all_types, results, output,
                   run, firstOutput, arg, ret, traceback, rows>>

\* Lines 43-60: build the two indices, the list of types and the header.
\* An exception of to_map ends the script before anything is written; the
\* traceback names line 49 (to_map(pub)) or line 50 (to_map(gov)).
BuildIndex ==
    /\ pc = "start"
    /\ LET pm == to_map(pub)
           gm == to_map(gov)
       IN  IF pm.raised \/ gm.raised
           THEN /\ pc' = "failed"
                /\ traceback' = IF pm.raised THEN 49 ELSE 50
                /\ UNCHANGED <<pub_map, gov_map, all_types, results>>
           ELSE /\ pub_map' = pm.value
                /\ gov_map' = gm.value
                /\ all_types' = sorted_types(pm.value, gm.value)
                /\ results' = [namespace |-> first_truthy(pub.namespace, gov.namespace),
                               publicCloud |-> pub.cloud,
                               govCloud |-> gov.cloud,
                               generatedUtc |-> now,
                               resourceTypeDiffs |-> <<>>]
                /\ pc' = "loop"
                /\ UNCHANGED traceback
    /\ UNCHANGED <<pub, gov, output, now, run, firstOutput, arg, ret, rows>>

\* Lines 62-94: one iteration of the loop over all_types.  Within one process
\* two sets built by the same sequence of insertions iterate in the same
\* order.
DiffNext ==
    /\ pc = "loop"
    /\ Len(results.resourceTypeDiffs) < Len(all_types)
    /\ LET rtype == all_types[Len(results.resourceTypeDiffs) + 1]
           pub_versions == get_versions(pub_map, rtype)
           gov_versions == get_versions(gov_map, rtype)
       IN  \E po \in IterationOrders(pub_versions), go \in IterationOrders(gov_versions) :
              /\ inserted(pub, rtype) = inserted(gov, rtype) => po = go
              /\ LET r == diff_record(rtype, pub_versions, gov_versions, po, go)
                 IN  IF r.raised
                     THEN pc' = "failed" /\ traceback' = 69 /\ UNCHANGED results
                     ELSE /\ results' = [results EXCEPT
                                            !.resourceTypeDiffs = Append(@, r.value)]
                          /\ pc' = pc
                          /\ UNCHANGED traceback
    /\ UNCHANGED <<pub, gov, pub_map, gov_map, all_types, output, now, run,
                   firstOutput, arg, ret, rows>>

\* Lines 96-99: the loop is over, the document is written.
WriteOutput ==
    /\ pc = "loop"
    /\ Len(results.resourceTypeDiffs) = Len(all_types)
    /\ output' = Some(results)
    /\ pc' = "done"
    /\ UNCHANGED <<pub, gov, pub_map, gov_map, all_types, results, now, run,
                   firstOutput, arg, ret, traceback, rows>>

\* The script is started again on the same two documents, in a new process.
Rerun ==
    /\ pc \in {"done", "failed"}
    /\ run = 1
    /\ run' = 2
    /\ firstOutput' = output
    /\ pc' = "start"
    /\ pub_map' = <<>>
    /\ gov_map' = <<>>
    /\ all_types' = <<>>
    /\ results' = NoResults
    /\ traceback' = 0
    /\ UNCHANGED <<pub, gov, output, now, arg, ret, rows>>

Next == Tick \/ BuildIndex \/ DiffNext \/ WriteOutput \/ Rerun

Spec == Init /\ [][Next]_vars

-----------------------------------------------------------------------------
(* latest_version on its own.                                              *)

LatestInit ==
    /\ \E S \in SUBSET Tokens :
          /\ Cardinality(S) <= MaxSetSize
          /\ \E o \in IterationOrders(S) : arg = [set |-> S, order |-> o]
    /\ pc = "call"
    /\ ret = Returned(None)
    /\ pub = NoDoc /\ gov = NoDoc
    /\ pub_map = <<>> /\ gov_map = <<>> /\ all_types = <<>>
    /\ results = NoResults /\ output = None /\ now = 0 /\ run = 1
    /\ firstOutput = None /\ traceback = 0 /\ rows = <<>>

CallLatest ==
    /\ pc = "call"
    /\ ret' = latest_version(arg.set, arg.order)
    /\ pc' = "return"
    /\ UNCHANGED <<pub, gov, pub_map, gov_map, all_types, results, output, now,
                   run, firstOutput, arg, traceback, rows>>

SpecLatest == LatestInit /\ [][CallLatest]_vars

-----------------------------------------------------------------------------
(* to_map on its own.                                                      *)

IndexInit ==
    /\ \E l \in Lists(Items(NameInputs, IndexTokens), MaxEntries) : arg = Doc("AzureCloud", l)
    /\ pc = "call"
    /\ ret = Returned(None)
    /\ pub = NoDoc /\ gov = NoDoc
    /\ pub_map = <<>> /\ gov_map = <<>> /\ all_types = <<>>
    /\ results = NoResults /\ output = None /\ now = 0 /\ run = 1
    /\ firstOutput = None /\ traceback = 0 /\ rows = <<>>

CallToMap ==
    /\ pc = "call"
    /\ ret' = to_map(arg)
    /\ pc' = "return"
    /\ UNCHANGED <<pub, gov, pub_map, gov_map, all_types, results, output, now,
                   run, firstOutput, arg, traceback, rows>>

SpecIndex == IndexInit /\ [][CallToMap]_vars

-----------------------------------------------------------------------------
(* A run of the differ followed by the report on the document it wrote.    *)

\* report_parity_md.py main(), lines 317-326, on the written document.
Report ==
    /\ pc = "done"
    /\ rows' = report_rows(json_dump(Val(output)))
    /\ pc' = "reported"
    /\ UNCHANGED <<pub, gov, pub_map, gov_map, all_types, results, output, now,
                   run, firstOutput, arg, ret, traceback>>

NextReport == BuildIndex \/ DiffNext \/ WriteOutput \/ Report

SpecReport == Init /\ [][NextReport]_vars


-----------------------------------------------------------------------------
(* Properties of a run.                                                    *)

Diffs == results.resourceTypeDiffs
Keys == DOMAIN pub_map \cup DOMAIN gov_map
P(R) == get_versions(pub_map, R)
G(R) == get_versions(gov_map, R)

Ascending(list) == \A i \in 1..(Len(list) - 1) : StrLess(list[i], list[i + 1])

Parses(v) == ~date_of[v].raised
DateOf(v) == date_of[v].value

\* C1: every emitted record has missingInGov equal to exactly the public
\* versions of its resource type that gov lacks, and missingInPublic equal to
\* exactly the gov versions that public lacks, each strictly ascending in
\* lexical order (so without duplicates); when the loop is over every
\* resource type of either index has such a record.
C1_SetDifference ==
    /\ \A i \in DOMAIN Diffs :
          LET r == Diffs[i]
          IN  /\ r.resourceType \in Keys
              /\ Range(r.missingInGov) = P(r.resourceType) \ G(r.resourceType)
              /\ Range(r.missingInPublic) = G(r.resourceType) \ P(r.resourceType)
              /\ Ascending(r.missingInGov)
              /\ Ascending(r.missingInPublic)
    /\ pc = "done" => \A R \in Keys : \E i \in DOMAIN Diffs : Diffs[i].resourceType = R

\* A record of a type whose two version sets overlap and differ both ways.
C1_Witness ==
    \E i \in DOMAIN Diffs :
        /\ P(Diffs[i].resourceType) \cap G(Diffs[i].resourceType) # {}
        /\ Diffs[i].missingInGov # <<>>
        /\ Diffs[i].missingInPublic # <<>>

\* C2: every emitted record has one of the three statuses, fixed by its two
\* missing lists alone: PublicAhead iff missingInGov is non-empty, GovAhead
\* iff missingInGov is empty and missingInPublic is not, Aligned iff both are
\* empty.
C2_StatusRule ==
    \A i \in DOMAIN Diffs :
        LET r == Diffs[i]
        IN  /\ r.status \in {"Aligned", "PublicAhead", "GovAhead"}
            /\ r.status = "PublicAhead" <=> r.missingInGov # <<>>
            /\ r.status = "GovAhead" <=> (r.missingInGov = <<>> /\ r.missingInPublic # <<>>)
            /\ r.status = "Aligned" <=> (r.missingInGov = <<>> /\ r.missingInPublic = <<>>)

\* A record with versions missing on both sides, classified PublicAhead.
C2_Witness ==
    \E i \in DOMAIN Diffs :
        /\ Diffs[i].missingInGov # <<>>
        /\ Diffs[i].missingInPublic # <<>>
        /\ Diffs[i].status = "PublicAhead"

\* C5: the lag of a record is absent exactly when latestPublic is absent, or
\* latestGov is absent, or one of the two tokens does not parse; a type that
\* only one index holds has an absent lag; in every other case the lag is the
\* date of latestPublic minus the date of latestGov, in days.
C5_LagAbsence ==
    \A i \in DOMAIN Diffs :
        LET r == Diffs[i]
            lp == r.latestPublic
            lg == r.latestGov
        IN  /\ r.lagDaysPublicAhead = None
                 <=> (lp = None \/ lg = None \/ ~Parses(Val(lp)) \/ ~Parses(Val(lg)))
            /\ r.lagDaysPublicAhead # None
                 => Val(r.lagDaysPublicAhead) = DateOf(Val(lp)) - DateOf(Val(lg))
            /\ (r.resourceType \notin DOMAIN pub_map \/ r.resourceType \notin DOMAIN gov_map)
                 => r.lagDaysPublicAhead = None

\* A record of a type only the public index holds: its latest parses, and the
\* lag is absent.
C5_Witness ==
    \E i \in DOMAIN Diffs :
        /\ Diffs[i].resourceType \notin DOMAIN gov_map
        /\ Diffs[i].latestPublic # None
        /\ Parses(Val(Diffs[i].latestPublic))
        /\ Diffs[i].lagDaysPublicAhead = None

\* C6: when both latest tokens parse, a later public date gives a lag above
\* 0, and equal dates give a lag of 0 whatever the raw tokens are.
C6_LagSign ==
    \A i \in DOMAIN Diffs :
        LET r == Diffs[i]
            lp == r.latestPublic
            lg == r.latestGov
        IN  (lp # None /\ lg # None /\ Parses(Val(lp)) /\ Parses(Val(lg)))
            => /\ DateOf(Val(lp)) > DateOf(Val(lg))
                    => (r.lagDaysPublicAhead # None /\ Val(r.lagDaysPublicAhead) > 0)
               /\ DateOf(Val(lp)) = DateOf(Val(lg)) => r.lagDaysPublicAhead = Some(0)

\* A record whose two latest tokens differ, share their date, and have lag 0.
C6_Witness ==
    \E i \in DOMAIN Diffs :
        /\ Diffs[i].latestPublic # None
        /\ Diffs[i].latestGov # None
        /\ Diffs[i].latestPublic # Diffs[i].latestGov
        /\ Diffs[i].lagDaysPublicAhead = Some(0)

\* C7: the written document holds one record for each key of the public or
\* of the gov index and for no other name, in strictly ascending
\* case-sensitive order of resourceType.
C7_OneRecordPerTypeAscending ==
    pc = "done" =>
        LET d == Val(output).resourceTypeDiffs
        IN  /\ {d[i].resourceType : i \in DOMAIN d} = Keys
            /\ \A i \in 1..(Len(d) - 1) : StrLess(d[i].resourceType, d[i + 1].resourceType)

\* A written document of two records, "B" from gov alone before "a" from
\* public alone.
C7_Witness ==
    /\ pc = "done"
    /\ Len(Val(output).resourceTypeDiffs) = 2
    /\ Val(output).resourceTypeDiffs[1].resourceType = "B"
    /\ Val(output).resourceTypeDiffs[2].resourceType = "a"
    /\ DOMAIN pub_map = {"a"}
    /\ DOMAIN gov_map = {"B"}

\* C8: a second run on the same two documents writes the same sequence of
\* records as the first, equal in every field (latestPublic and latestGov
\* among them).  The claim asks the same of every other byte of the document,
\* generatedUtc included.
C8_SecondRunIdentical ==
    (run = 2 /\ pc = "done" /\ firstOutput # None)
        => Val(output).resourceTypeDiffs = Val(firstOutput).resourceTypeDiffs

HasNull(doc) ==
    \E i \in DOMAIN doc.resourceTypes : doc.resourceTypes[i].apiVersions.kind = "null"

\* What a record of type R must hold when every token of R parses.
CorrectRecord(r, R) ==
    /\ r.latestPublic = None <=> P(R) = {}
    /\ r.latestGov = None <=> G(R) = {}
    /\ r.latestPublic # None
         => (Val(r.latestPublic) \in P(R)
             /\ \A v \in P(R) : DateOf(v) <= DateOf(Val(r.latestPublic)))
    /\ r.latestGov # None
         => (Val(r.latestGov) \in G(R)
             /\ \A v \in G(R) : DateOf(v) <= DateOf(Val(r.latestGov)))
    /\ (r.latestPublic # None /\ r.latestGov # None)
         => r.lagDaysPublicAhead
              = Some(DateOf(Val(r.latestPublic)) - DateOf(Val(r.latestGov)))
    /\ Range(r.missingInGov) = P(R) \ G(R)
    /\ Range(r.missingInPublic) = G(R) \ P(R)
    /\ r.status \in {"Aligned", "PublicAhead", "GovAhead"}

\* What makes to_map raise: a root that is no object, or an apiVersions that
\* is null.
Malformed(doc) == doc.root # "object" \/ HasNull(doc)

\* C10: no version token makes the run fail (it fails only on a document
\* that to_map rejects); the written document holds a record for every type that
\* holds a malformed token, with an absent lag where a malformed token is a
\* latest, and a complete and correct record for every other type.
C10_MalformedTokenTolerated ==
    /\ pc = "failed" => (Malformed(pub) \/ Malformed(gov))
    /\ pc = "done" =>
          /\ Len(Diffs) = Cardinality(Keys)
          /\ \A R \in Keys :
                \E i \in DOMAIN Diffs :
                    LET r == Diffs[i]
                    IN  /\ r.resourceType = R
                        /\ ((r.latestPublic # None /\ ~Parses(Val(r.latestPublic)))
                             \/ (r.latestGov # None /\ ~Parses(Val(r.latestGov))))
                              => r.lagDaysPublicAhead = None
                        /\ (\A v \in P(R) \cup G(R) : Parses(v)) => CorrectRecord(r, R)

\* A written document of two records: one whose latestPublic is malformed
\* while gov has a latest, one of a type whose tokens all parse.
C10_Witness ==
    /\ pc = "done"
    /\ \E i, j \in DOMAIN Diffs :
          /\ i # j
          /\ Diffs[i].latestPublic # None
          /\ ~Parses(Val(Diffs[i].latestPublic))
          /\ \A v \in P(Diffs[j].resourceType) \cup G(Diffs[j].resourceType) : Parses(v)
          /\ P(Diffs[j].resourceType) \cup G(Diffs[j].resourceType) # {}

C12_StatusBoundsLagSign ==
    \A i \in DOMAIN Diffs :
        LET r == Diffs[i]
        IN  r.lagDaysPublicAhead # None =>
              /\ r.latestPublic # None /\ r.latestGov # None
              /\ Val(r.lagDaysPublicAhead)
                   = DateOf(Val(r.latestPublic)) - DateOf(Val(r.latestGov))
              /\ r.status = "GovAhead" => Val(r.lagDaysPublicAhead) <= 0
              /\ r.status = "Aligned" => Val(r.lagDaysPublicAhead) = 0
              /\ Val(r.lagDaysPublicAhead) > 0 => r.status = "PublicAhead"

\* A written GovAhead record whose lag is negative: gov holds the public
\* versions and a later one.
C12_Witness ==
    /\ pc = "done"
    /\ \E i \in DOMAIN Diffs :
          /\ Diffs[i].status = "GovAhead"
          /\ P(Diffs[i].resourceType) # {}
          /\ Diffs[i].lagDaysPublicAhead # None
          /\ Val(Diffs[i].lagDaysPublicAhead) < 0

\* C14: in every record with status Aligned, latestPublic and latestGov are
\* the same token.
C14_AlignedSameLatest ==
    \A i \in DOMAIN Diffs :
        Diffs[i].status = "Aligned" => Diffs[i].latestPublic = Diffs[i].latestGov

-----------------------------------------------------------------------------
(* Properties of latest_version.                                           *)

StrLeq(a, b) == a = b \/ StrLess(a, b)
LexGreatest(S) == CHOOSE x \in S : \A y \in S : StrLeq(y, x)
MaxDate(S) == Max({DateOf(v) : v \in S})

\* C3: for a non-empty set of tokens that parse, latest_version returns the
\* lexically greatest of the tokens with the latest date, in whatever order
\* the set is iterated; for the empty set it returns None.
C3_LexicalTieBreak ==
    pc = "return" =>
        /\ ~ret.raised
        /\ arg.set = {} => ret.value = None
        /\ (arg.set # {} /\ \A v \in arg.set : Parses(v))
             => ret.value = Some(LexGreatest({v \in arg.set : DateOf(v) = MaxDate(arg.set)}))

\* C4 as claimed: a token that does not parse is returned only when it is the
\* sole element of the set.
C4_OnlyWhenSole ==
    pc = "return" =>
        \A t \in arg.set : (ret.value = Some(t) /\ ~Parses(t)) => arg.set = {t}

\* C4, amended: a token that does not parse sorts as datetime.min
\* (0001-01-01), so it is returned only when no element of the set parses to
\* a later date; a sole element is returned whether it parses or not.
C4_UnparsableSortsAsMin ==
    pc = "return" =>
        /\ ~ret.raised
        /\ \A t \in arg.set :
              (ret.value = Some(t) /\ ~Parses(t))
                 => \A u \in arg.set : Parses(u) => DateOf(u) = datetime_min
        /\ \A t \in arg.set : arg.set = {t} => ret.value = Some(t)

\* A set holding a token that parses and, last in iteration order, one that
\* does not; the one that parses is returned.
C4_Witness ==
    /\ pc = "return"
    /\ Cardinality(arg.set) >= 2
    /\ ~Parses(arg.order[Len(arg.order)])
    /\ ret.value # None
    /\ Parses(Val(ret.value))

-----------------------------------------------------------------------------
(* Properties of to_map.                                                   *)

ItemsOf(doc) == doc.resourceTypes
VersionsOf(item) == IF item.apiVersions.kind = "list" THEN Range(item.apiVersions.list) ELSE {}

\* C9: when every named entry has an apiVersions that is a list or absent,
\* to_map raises nothing whatever the unnamed entries hold, its keys are the
\* non-empty names, and a name that one entry alone carries is mapped to the
\* set of that entry's apiVersions.
C9_NamelessEntriesDropped ==
    (/\ pc = "return"
     /\ \A i \in DOMAIN ItemsOf(arg) :
           truthy(ItemsOf(arg)[i].resourceType) => ItemsOf(arg)[i].apiVersions.kind # "null")
    => /\ ~ret.raised
       /\ DOMAIN ret.value
            = {Val(ItemsOf(arg)[i].resourceType) :
                  i \in {j \in DOMAIN ItemsOf(arg) : truthy(ItemsOf(arg)[j].resourceType)}}
       /\ \A i \in DOMAIN ItemsOf(arg) :
             (/\ truthy(ItemsOf(arg)[i].resourceType)
              /\ \A j \in DOMAIN ItemsOf(arg) :
                    ItemsOf(arg)[j].resourceType = ItemsOf(arg)[i].resourceType => j = i)
             => ret.value[Val(ItemsOf(arg)[i].resourceType)] = VersionsOf(ItemsOf(arg)[i])

-----------------------------------------------------------------------------
(* Properties of the report.                                               *)

\* C13: once the report has read the document the differ wrote, every record
\* of the document whose resourceType is non-empty has a row among the rows
\* the report renders and counts, with the same resourceType, status,
\* latestPublic and latestGov (a latest that is None shown as a dash).
C13_ReportConsumesRecords ==
    pc = "reported" =>
        \A i \in DOMAIN Val(output).resourceTypeDiffs :
            LET r == Val(output).resourceTypeDiffs[i]
            IN  r.resourceType # "" =>
                  \E k \in DOMAIN rows :
                      /\ rows[k].resourceType = r.resourceType
                      /\ rows[k].status = r.status
                      /\ rows[k].latestPublic
                           = (IF r.latestPublic = None THEN EM_DASH ELSE Val(r.latestPublic))
                      /\ rows[k].latestGov
                           = (IF r.latestGov = None THEN EM_DASH ELSE Val(r.latestGov))

\* The entries of a document that carry the name R, and the versions of the
\* last of them.
EntriesNamed(doc, R) == {i \in DOMAIN ItemsOf(doc) : ItemsOf(doc)[i].resourceType = Some(R)}
LastVersions(doc, R) ==
    IF EntriesNamed(doc, R) = {} THEN {}
    ELSE VersionsOf(ItemsOf(doc)[CHOOSE i \in EntriesNamed(doc, R) :
                                    \A j \in EntriesNamed(doc, R) : j <= i])

\* C15: once the indices are built, each has exactly the non-empty names of
\* its document as keys, each name mapped to the version set of the last
\* entry that carries it, whatever earlier entries of that name hold; there
\* is one resource type per distinct name, and every record's missing lists
\* and latests are those of the last entries.
C15_LastEntryWins ==
    pc \in {"loop", "done"} =>
        /\ \A R \in Names \ {""} :
              /\ R \in DOMAIN pub_map <=> EntriesNamed(pub, R) # {}
              /\ R \in DOMAIN gov_map <=> EntriesNamed(gov, R) # {}
              /\ P(R) = LastVersions(pub, R)
              /\ G(R) = LastVersions(gov, R)
        /\ Len(all_types)
             = Cardinality({R \in Names \ {""} :
                              EntriesNamed(pub, R) \cup EntriesNamed(gov, R) # {}})
        /\ \A i \in DOMAIN Diffs :
              LET r == Diffs[i]
                  R == r.resourceType
              IN  /\ Range(r.missingInGov) = LastVersions(pub, R) \ LastVersions(gov, R)
                  /\ Range(r.missingInPublic) = LastVersions(gov, R) \ LastVersions(pub, R)
                  /\ r.latestPublic = None <=> LastVersions(pub, R) = {}
                  /\ r.latestPublic # None => Val(r.latestPublic) \in LastVersions(pub, R)
                  /\ r.latestGov = None <=> LastVersions(gov, R) = {}
                  /\ r.latestGov # None => Val(r.latestGov) \in LastVersions(gov, R)

\* A written document whose public input names one type in two entries, the
\* first holding a version the last one lacks: the type has one record, and
\* that version is not in it.
C15_Witness ==
    /\ pc = "done"
    /\ Len(Diffs) = 1
    /\ \E i, j \in DOMAIN ItemsOf(pub) :
          /\ i < j
          /\ ItemsOf(pub)[i].resourceType = ItemsOf(pub)[j].resourceType
          /\ truthy(ItemsOf(pub)[i].resourceType)
          /\ VersionsOf(ItemsOf(pub)[i]) \ VersionsOf(ItemsOf(pub)[j]) # {}
          /\ VersionsOf(ItemsOf(pub)[j]) # {}
          /\ Range(Diffs[1].missingInGov) = VersionsOf(ItemsOf(pub)[j])

=============================================================================
